---- MODULE Spec2Model ----
(***************************************************************************)
(* SerialPipe (ESP8266 serial <-> TCP bridge): a model of SerialPipe.ino.  *)
(* Characters and bytes are integers 0..255; a C string is a tuple of      *)
(* character codes without its terminator.                                 *)
(***************************************************************************)
EXTENDS Integers, Sequences, FiniteSets, TLC

(***************************** bytes and words ******************************)

Min(a, b) == IF a <= b THEN a ELSE b

\* n copies of the byte b
Rep(n, b) == [k \in 1..n |-> b]

\* bitwise exclusive or of two naturals (C operator ^)
RECURSIVE BitXor(_, _)
BitXor(a, b) ==
  IF a = 0 THEN b
  ELSE IF b = 0 THEN a
  ELSE (((a % 2) + (b % 2)) % 2) + 2 * BitXor(a \div 2, b \div 2)

\* the four bytes that hold the C int n (-2^31 <= n < 2^31) in memory:
\* two's complement, little-endian target; storing the int into a uint32_t
\* field keeps the same four bytes
LE32(n) ==
  LET m == IF n < 0 THEN (n + 2147483647) + 1 ELSE n
  IN << m % 256, (m \div 256) % 256, (m \div 65536) % 256,
        (m \div 16777216) + (IF n < 0 THEN 128 ELSE 0) >>

\* the C int held in four bytes of memory
FromLE32(b) ==
  LET m == b[1] + 256 * b[2] + 65536 * b[3] + 16777216 * (b[4] % 128)
  IN IF b[4] >= 128 THEN (m - 2147483647) - 1 ELSE m

\* bytes lo..hi (1-based, inclusive) of a byte array
Slice(m, lo, hi) == [k \in 1..(hi - lo + 1) |-> m[lo + k - 1]]

\* the byte array m with the bytes of s stored from 1-based index at
\* (bytes that fall beyond the end of m are dropped here; see StrCpyOut)
Store(m, at, s) ==
  [k \in 1..Len(m) |->
     IF k >= at /\ k < at + Len(s) THEN s[k - at + 1] ELSE m[k]]

(********************************* CRC8 *************************************)

\* the XOR constant of the Dallas/Maxim CRC
CRC_POLY == 140

\* eight shifts without the XOR: C6_Detects tells them from CRC8Byte
CRC8Byte_Shift(crc, extract, tempI) == crc \div 256

\* the inner loop of CRC8: tempI shifts of one byte `extract` into `crc`
RECURSIVE CRC8Byte(_, _, _)
CRC8Byte(crc, extract, tempI) ==
  IF tempI = 0 THEN crc
  ELSE IF BitXor(crc, extract) % 2 = 1
       THEN CRC8Byte(BitXor(crc \div 2, CRC_POLY), extract \div 2, tempI - 1)
       ELSE CRC8Byte(crc \div 2, extract \div 2, tempI - 1)

\* the eight shifts of the inner loop, tabulated for every value of crc
\* and every byte
CRC8Shifts == [crc \in 0..255 |-> [extract \in 0..255 |-> CRC8Byte(crc, extract, 8)]]

\* the outer loop of CRC8 over the bytes lo..hi of data, entered with crc
\* (a byte); the range is halved so that the evaluation stays shallow
RECURSIVE CRC8From(_, _, _, _)
CRC8From(data, lo, hi, crc) ==
  IF lo > hi \/ crc \notin 0..255 THEN crc
  ELSE IF lo = hi THEN CRC8Shifts[crc][data[lo]]
  ELSE CRC8From(data, ((lo + hi) \div 2) + 1, hi,
                CRC8From(data, lo, (lo + hi) \div 2, crc))

\* byte CRC8(const byte *data, byte len): len is truncated to 8 bits
CRC8(data, len) == CRC8From(data, 1, len % 256, 0)

(************************ the configuration in memory ***********************)

\* sizeof(wifi_settings_t.ssid) and sizeof(wifi_settings_t.psk)
SSID_SIZE == 32
PSK_SIZE == 64
\* sizeof(serialpipe_config_t): 32 + 64 + 4 + 4 + 4 + 4, alignment 4
SIZEOF_CONFIG == 112
\* sizeof(serialpipe_config_file_t): the config, the crc byte and three
\* bytes of padding up to the alignment of the struct
SIZEOF_CONFIG_FILE == 116

\* 1-based index of the first byte of each field of serialpipe_config_t
OFF_SSID == 1
OFF_PSK == 33
OFF_TX_POWER == 97
OFF_LISTEN_PORT == 101
OFF_LOG_BAUD == 105
OFF_DUT_BAUD == 109

\* "default" and "undefined"
DEFAULT_SSID == << 100, 101, 102, 97, 117, 108, 116 >>
DEFAULT_PSK == << 117, 110, 100, 101, 102, 105, 110, 101, 100 >>
DEFAULT_LISTEN_PORT == 23
DEFAULT_BAUD_DUT == 115200
DEFAULT_BAUD_LOGGER == 115200
\* 12.0 as a decimal fraction num/den
DEFAULT_TX_POWER == << 120, 10 >>

\* the binary digits of n > 0, most significant first
RECURSIVE BinDigits(_)
BinDigits(n) == IF n = 0 THEN << >> ELSE Append(BinDigits(n \div 2), n % 2)

\* n more binary digits of the fraction r/den (r < den), as <<digits, r'>>
RECURSIVE FracDigits(_, _, _, _)
FracDigits(r, den, n, acc) ==
  IF n = 0 THEN << acc, r >>
  ELSE LET d == IF 2 * r >= den THEN 1 ELSE 0
       IN FracDigits(2 * r - d * den, den, n - 1, Append(acc, d))

\* the number of leading zero digits of the binary fraction r/den (r > 0)
RECURSIVE FracLead(_, _)
FracLead(r, den) == IF 2 * r >= den THEN 0 ELSE 1 + FracLead(2 * r, den)

\* r * 2^n
RECURSIVE Shl(_, _)
Shl(r, n) == IF n = 0 THEN r ELSE Shl(2 * r, n - 1)

\* the value of a sequence of binary digits
RECURSIVE BinValue(_)
BinValue(d) ==
  IF d = << >> THEN 0 ELSE 2 * BinValue(SubSeq(d, 1, Len(d) - 1)) + d[Len(d)]

\* the four bytes of the IEEE-754 single nearest to num/den (num >= 0,
\* den > 0, normal range; round to nearest, ties to even), little-endian
FloatBytes(num, den) ==
  IF num = 0 THEN << 0, 0, 0, 0 >>
  ELSE
    LET ip    == BinDigits(num \div den)
        r0    == num % den
        lead  == IF ip = << >> THEN FracLead(r0, den) ELSE 0
        e     == IF ip = << >> THEN 0 - (lead + 1) ELSE Len(ip) - 1
        r1    == IF ip = << >> THEN Shl(r0, lead) ELSE r0
        fr    == FracDigits(r1, den, 24 - Len(ip), << >>)
        m0    == BinValue(ip \o fr[1])
        g     == FracDigits(fr[2], den, 1, << >>)
        up    == g[1][1] = 1 /\ (g[2] > 0 \/ m0 % 2 = 1)
        m1    == IF up THEN m0 + 1 ELSE m0
        m     == IF m1 = 16777216 THEN 8388608 ELSE m1
        ex    == (IF m1 = 16777216 THEN e + 1 ELSE e) + 127
    IN << m % 256, (m \div 256) % 256,
          ((m \div 65536) % 128) + 128 * (ex % 2), ex \div 2 >>

\* memset(&serialpipe_config, 0, sizeof(serialpipe_config_t))
ZeroConfig == Rep(SIZEOF_CONFIG, 0)

\* the C string stored from 1-based index at of the byte array m: the bytes
\* up to the first 0 (up to the end of m when no 0 follows)
CStr(m, at) ==
  LET zeros == {k \in at..Len(m) : m[k] = 0}
      end   == IF zeros = {} THEN Len(m) + 1
               ELSE CHOOSE k \in zeros : \A j \in zeros : k <= j
  IN SubSeq(m, at, end - 1)

\* the fields of a serialpipe_config_t held in the byte array c
\* (the strings are read as C reads them: up to the first 0)
Ssid(c) == CStr(c, OFF_SSID)
Psk(c) == CStr(c, OFF_PSK)
TxPower(c) == Slice(c, OFF_TX_POWER, OFF_TX_POWER + 3)
ListenPort(c) == FromLE32(Slice(c, OFF_LISTEN_PORT, OFF_LISTEN_PORT + 3))
LogBaud(c) == FromLE32(Slice(c, OFF_LOG_BAUD, OFF_LOG_BAUD + 3))
DutBaud(c) == FromLE32(Slice(c, OFF_DUT_BAUD, OFF_DUT_BAUD + 3))

\* set_default_config applied to the configuration c
set_default_config(c) ==
  LET c0 == ZeroConfig
      c1 == Store(c0, OFF_SSID, Append(DEFAULT_SSID, 0))
      c2 == Store(c1, OFF_PSK, Append(DEFAULT_PSK, 0))
      c3 == Store(c2, OFF_TX_POWER,
                  FloatBytes(DEFAULT_TX_POWER[1], DEFAULT_TX_POWER[2]))
      c4 == Store(c3, OFF_LISTEN_PORT, LE32(DEFAULT_LISTEN_PORT))
      c5 == Store(c4, OFF_LOG_BAUD, LE32(DEFAULT_BAUD_LOGGER))
  IN Store(c5, OFF_DUT_BAUD, LE32(DEFAULT_BAUD_DUT))

(**************************** persistent storage ****************************)

\* The flash file system: "ok" mounts; "unformatted" fails to mount until
\* LittleFS.format() has run; "dead" never mounts.
FsStates == {"ok", "unformatted", "dead"}

\* LittleFS.begin()
Mounts(fs) == fs = "ok"
\* a format that repairs every flash: C12_FatalHalt tells it from FormatFs
FormatFs_Heals(fs) == "ok"

\* LittleFS.format(): erases every file when the flash can be formatted
FormatFs(fs) == IF fs = "dead" THEN "dead" ELSE "ok"
FormatFile(fs, file) == IF fs = "dead" THEN file ELSE << >>

\* a record whose crc byte is left zero: C4_RoundTrip tells it from
\* ConfigFileBytes
ConfigFileBytes_NoCrc(c, pad) == c \o << 0 >> \o pad

\* the bytes of sp_file that save_config writes: the configuration, its
\* crc, and the struct padding pad, which save_config never initialises
ConfigFileBytes(c, pad) == c \o << CRC8(c, SIZEOF_CONFIG) >> \o pad

\* save_config: the contents of /serialpipe.conf afterwards
save_config(c, fs, file, pad) ==
  IF ~Mounts(fs) THEN file ELSE ConfigFileBytes(c, pad)

\* a read that trusts every record of the right size: C5_SelfHealing tells
\* it from ReadConfigFile
ReadConfigFile_Trusting(file, c) ==
  IF Len(file) = SIZEOF_CONFIG_FILE
  THEN << SIZEOF_CONFIG_FILE, Slice(file, 1, SIZEOF_CONFIG) >>
  ELSE << 0, c >>

\* load_config up to LittleFS.end(): <<bytes_read, serialpipe_config>> for
\* the file contents `file` and the configuration c held before
ReadConfigFile(file, c) ==
  IF Len(file) = SIZEOF_CONFIG_FILE
  THEN LET config == Slice(file, 1, SIZEOF_CONFIG)
           crc    == file[SIZEOF_CONFIG + 1]
       IN << IF crc # CRC8(config, SIZEOF_CONFIG) THEN 0
             ELSE SIZEOF_CONFIG_FILE,
             config >>
  ELSE << 0, c >>

\* load_config: [halt, fs, file, config, wrote, found] for storage (fs,
\* file), the configuration c in memory and the padding pad a save would
\* write (wrote: save_config was called; found: the branch taken)
load_config(fs, file, c, pad) ==
  LET fs1   == IF Mounts(fs) THEN fs ELSE FormatFs(fs)
      file1 == IF Mounts(fs) THEN file ELSE FormatFile(fs, file)
  IN IF ~Mounts(fs1)
     THEN [halt |-> TRUE, fs |-> fs1, file |-> file1, config |-> c,
           wrote |-> FALSE, found |-> "none"]
     ELSE LET rd == ReadConfigFile(file1, c)
          IN IF rd[1] # SIZEOF_CONFIG_FILE
             THEN [halt |-> FALSE, fs |-> fs1,
                   file |-> save_config(set_default_config(rd[2]), fs1,
                                        file1, pad),
                   config |-> set_default_config(rd[2]), wrote |-> TRUE,
                   found |-> IF file1 = << >> THEN "absent"
                             ELSE IF Len(file1) # SIZEOF_CONFIG_FILE
                                  THEN "size" ELSE "crc"]
             ELSE [halt |-> FALSE, fs |-> fs1, file |-> file1,
                   config |-> rd[2], wrote |-> FALSE, found |-> "good"]

(******************************* the console ********************************)

\* the key that starts configuration mode: 'c'
CONFIGURATION_KEY == 99
\* what Serial.read() returns, stored in a char, when no byte is buffered
NO_DATA == 255
NEWLINE == 10
BACKSPACE == 8

\* isPrintable(ch)
isPrintable(ch) == ch >= 32 /\ ch <= 126

\* a turn that takes a backspace for a character to ignore:
\* C18_LineEditing tells it from ConsoleTurn
ConsoleTurn_NoErase(st, ch, at) ==
  IF st.next # 0 THEN st
  ELSE IF ch = NEWLINE THEN [st EXCEPT !.next = at + 1]
  ELSE IF isPrintable(ch)
       THEN [st EXCEPT !.input = Append(@, ch), !.echo = Append(@, ch)]
  ELSE st

\* one turn of the loop of console_read (lines 504-528) for the character
\* ch, read at position at of the input: the line collected so far, the
\* characters echoed, and next, the position after the newline once the
\* newline has been read (0 before)
ConsoleTurn(st, ch, at) ==
  IF st.next # 0 THEN st
  ELSE IF ch = NEWLINE THEN [st EXCEPT !.next = at + 1]
  ELSE IF ch = BACKSPACE /\ Len(st.input) > 0
       THEN [st EXCEPT !.input = SubSeq(@, 1, Len(@) - 1),
                       !.echo = Append(@, ch)]
  ELSE IF isPrintable(ch)
       THEN [st EXCEPT !.input = Append(@, ch), !.echo = Append(@, ch)]
  ELSE st

\* the turns of console_read for the characters lo..hi of stream, in order
RECURSIVE ConsoleReadRange(_, _, _, _)
ConsoleReadRange(stream, lo, hi, st) ==
  IF lo > hi THEN st
  ELSE IF lo = hi THEN ConsoleTurn(st, stream[lo], lo)
  ELSE LET left == ConsoleReadRange(stream, lo, (lo + hi) \div 2, st)
       IN IF left.next # 0 THEN left
          ELSE ConsoleReadRange(stream, ((lo + hi) \div 2) + 1, hi, left)

\* console_read(input) with input empty on entry, for the characters
\* `stream` that successive Serial.read() calls return (next = 0 when the
\* stream ends before a newline: console_read is still waiting)
console_read(stream) ==
  ConsoleReadRange(stream, 1, Len(stream),
                   [input |-> << >>, echo |-> << >>, next |-> 0])

isDigit(ch) == ch >= 48 /\ ch <= 57
isSpace(ch) == ch = 32 \/ (ch >= 9 /\ ch <= 13)

\* the digits of s from position at: <<value, number of digits>>
RECURSIVE Digits(_, _, _, _)
Digits(s, at, value, n) ==
  IF at > Len(s) \/ value < 0 THEN << value, n >>
  ELSE IF isDigit(s[at]) THEN Digits(s, at + 1, 10 * value + (s[at] - 48), n + 1)
  ELSE << value, n >>

\* the position of the first character of s at or after at that is no space
RECURSIVE SkipSpace(_, _)
SkipSpace(s, at) ==
  IF at <= Len(s) /\ isSpace(s[at]) THEN SkipSpace(s, at + 1) ELSE at

\* atoi(s): optional white space, optional sign, decimal digits; 0 when no
\* digit follows (for values that fit an int)
atoi(s) ==
  LET p    == SkipSpace(s, 1)
      neg  == p <= Len(s) /\ s[p] = 45
      q    == IF p <= Len(s) /\ (s[p] = 45 \/ s[p] = 43) THEN p + 1 ELSE p
      d    == Digits(s, q, 0, 0)
  IN IF neg THEN 0 - d[1] ELSE d[1]

\* 10^n
RECURSIVE Pow10(_)
Pow10(n) == IF n = 0 THEN 1 ELSE 10 * Pow10(n - 1)

\* (float)atof(s) as the four bytes stored in a float: optional white
\* space, optional sign, digits, optional fraction; 0.0 when no digit
\* follows (decimal notation only, for values in the normal range)
atof(s) ==
  LET p    == SkipSpace(s, 1)
      neg  == p <= Len(s) /\ s[p] = 45
      q    == IF p <= Len(s) /\ (s[p] = 45 \/ s[p] = 43) THEN p + 1 ELSE p
      ip   == Digits(s, q, 0, 0)
      r    == q + ip[2]
      fp   == IF r <= Len(s) /\ s[r] = 46 THEN Digits(s, r + 1, 0, 0)
              ELSE << 0, 0 >>
      den  == Pow10(fp[2])
      b    == FloatBytes(ip[1] * den + fp[1], den)
  IN IF ip[2] + fp[2] = 0 THEN << 0, 0, 0, 0 >>
     ELSE << b[1], b[2], b[3], b[4] + (IF neg THEN 128 ELSE 0) >>

\* strcpy(dst, s) into the byte array m, dst at 1-based index at: the part
\* of the copy (s and its terminator) that lands inside m
StrCpy(m, at, s) == Store(m, at, Append(s, 0))
\* the number of bytes strcpy writes past the end of m
StrCpyOut(m, at, s) ==
  IF at + Len(s) > Len(m) THEN (at + Len(s)) - Len(m) ELSE 0

\* the commit of configurationConsole (case 'y'): serialpipe_config after
\* memset, the two strcpy and the four assignments
CommitConfig(new_ssid, new_psk, new_tx_power, new_listen_port, new_dut_baud, new_log_baud) ==
  LET c0 == ZeroConfig
      c1 == StrCpy(c0, OFF_SSID, new_ssid)
      c2 == StrCpy(c1, OFF_PSK, new_psk)
      c3 == Store(c2, OFF_TX_POWER, new_tx_power)
      c4 == Store(c3, OFF_LISTEN_PORT, LE32(new_listen_port))
      c5 == Store(c4, OFF_DUT_BAUD, LE32(new_dut_baud))
  IN Store(c5, OFF_LOG_BAUD, LE32(new_log_baud))

\* the number of bytes the two strcpy of the commit write outside
\* serialpipe_config
CommitOut(new_ssid, new_psk) ==
  StrCpyOut(ZeroConfig, OFF_SSID, new_ssid)
  + StrCpyOut(ZeroConfig, OFF_PSK, new_psk)

(******************************** the state *********************************)

MAX_SRV_CLIENTS == 2
STACK_PROTECTOR == 512
CONFIG_CONSOLE_ENTRY_DELAY_MS == 1000
STATUS_LED_ON_MS == 100
STATUS_LED_OFF_MS == 5000
\* delay(2000) at the start of configurationConsole
CONSOLE_SETTLE_MS == 2000
HIGH == 1
LOW == 0

Slots == 0..(MAX_SRV_CLIENTS - 1)

VARIABLES
  pc,                    \* where the sketch is: "boot" (reset, setup not yet
                         \* run), "poll" (setup's key loop), "wifi"
                         \* (setupSerialPipe waiting for the network), "loop"
                         \* (between two calls of loop), "confirm"
                         \* (configurationConsole's y/N loop), "halt" (while(1))
  boots,                 \* number of times setup has started
  millis,                \* millis(): time since reset
  configuration_mode,    \* the global of that name
  swapped,               \* TRUE when Serial is routed to GPIO13/GPIO15
  logger,                \* TRUE once logger points to a SoftwareSerial
  op,                    \* the step taken last
  setups,                \* the mode setups run since reset, in order
  poll_start,            \* millis() when setup's key loop started, -1 before
  key_at,                \* millis() when the first 'c' of this boot arrived
                         \* on the console pins, -1 when none has
  fs_state,              \* the flash file system, see FsStates
  conf_file,             \* the bytes of /serialpipe.conf, << >> when absent
  saved,                 \* the configuration the last save_config wrote to
                         \* the flash (<< >>: none yet)
  load_found,            \* what the last load_config found: "absent",
                         \* "size", "crc" or "good" ("none" before the
                         \* first, and when the flash did not mount)
  serialpipe_config,     \* the bytes of the global serialpipe_config
  status_led_state,
  status_led_change_ms,
  serial_rx,             \* bytes received by the hardware UART, not yet read
  logger_rx,             \* bytes received by the SoftwareSerial logger
  cand,                  \* the locals of configurationConsole at the prompt
  oob,                   \* bytes the last commit wrote outside the config
  serverClients,         \* the client slots
  pending,               \* connections waiting on the listening socket
  serial_afw,            \* Serial.availableForWrite()
  tick,                  \* what the call of serialPipe just made did (NoTick
                         \* once the network or the UART has moved on)
  radio,                 \* the settings setupSerialPipe applied
  wifi_up,               \* WiFi.status() == WL_CONNECTED
  events,                \* what the network and the UART did since reset
  probe                  \* input and result of the function under test

lifeVars_but_op == << pc, boots, millis, configuration_mode, swapped, logger,
                      setups, poll_start, key_at >>
lifeVars == << lifeVars_but_op, op >>
storeVars == << fs_state, conf_file, serialpipe_config, saved, load_found >>
ledVars == << status_led_state, status_led_change_ms >>
consoleVars == << serial_rx, logger_rx, cand, oob >>
bridgeVars == << serverClients, pending, serial_afw, tick, radio, wifi_up,
                events >>
vars == << lifeVars, storeVars, ledVars, consoleVars, bridgeVars, probe >>

\* a default-constructed WiFiClient
NoClient == [id |-> 0, conn |-> FALSE, rx |-> << >>, afw |-> 0]

\* the record of a call of serialPipe that did nothing
NoTick ==
  [trig |-> FALSE, taken |-> << >>, slot |-> -1, busy |-> << >>,
   to_serial |-> << >>, freed |-> -1, seen |-> [i \in Slots |-> 0], maxToTcp |-> 0,
   avail |-> 0, chunk |-> << >>, fan |-> [i \in Slots |-> 0],
   sent |-> [i \in Slots |-> << >>], acked |-> [i \in Slots |-> 0]]

NoRadio == [begun |-> FALSE]
NoCand == [set |-> FALSE]
NoProbe == [fn |-> "none"]

\* the globals as the reset leaves them (the flash keeps its contents)
ResetGlobals ==
  /\ pc' = "boot"
  /\ millis' = 0
  /\ configuration_mode' = FALSE
  /\ swapped' = FALSE
  /\ logger' = FALSE
  /\ setups' = << >>
  /\ poll_start' = -1
  /\ key_at' = -1
  /\ serialpipe_config' = ZeroConfig
  /\ status_led_state' = HIGH
  /\ status_led_change_ms' = 0
  /\ serial_rx' = << >>
  /\ logger_rx' = << >>
  /\ cand' = NoCand
  /\ oob' = 0
  /\ serverClients' = [i \in Slots |-> NoClient]
  /\ pending' = << >>
  /\ serial_afw' = 0
  /\ tick' = NoTick
  /\ radio' = NoRadio
  /\ wifi_up' = FALSE
  /\ events' = 0

(***************************** bounds of the model **************************)

\* setup runs at most MaxBoots times
MaxBoots == 2
\* time advances in steps of TimeStep ms, up to MaxMillis
TimeStep == 500
MaxMillis == 1500
\* at most MaxConsoleRx unread characters on the console pins
MaxConsoleRx == 1
\* the values the three padding bytes of sp_file may hold when save_config
\* writes them (uninitialised stack)
PadValues == { << 0, 0, 0 >>, << 165, 90, 60 >> }
\* how long load_config may take
LoadTimes == { 0, TimeStep }
\* the bytes a peer may acknowledge in the middle of a call of serialPipe
GrowBy == 40
\* the network and the UART act at most MaxEvents times between two resets
MaxEvents == 4
\* the largest budget availableForWrite() reports (the TCP send buffer)
MaxBudget == 100
\* the free space of the UART transmit FIFO when it is empty
SerialFifo == 1
\* connections waiting on the listening socket, bytes a client has sent
\* and are unread, bytes the UART has received and are unread
MaxPending == 2
MaxClientRx == 2
MaxSerialRx == 41
\* the bytes of a long burst of the device under test: more than one chunk
MaxFlood == 520
\* the peers, the budgets availableForWrite() may report, the bytes a
\* client sends at once, the bytes the UART receives at once
ClientIds == 1..3
BudgetVals == { 0, 10, 50, 100 }
ClientData == { << 120 >>, << CONFIGURATION_KEY, 10 >> }
SerialBursts == { 1, 40 }
\* the characters an operator types before the confirmation prompt ('c',
\* 'x') and at the prompt ('y', 'Y', 'n', 'N', 'x')
BridgeKeys == { CONFIGURATION_KEY, 120 }
ConfirmKeys == { 121, 89, 110, 78, 120 }
\* where the sketch is when a character arrives
Running == { "poll", "wifi", "loop" }

(****************************** setup and loop ******************************)

\* a routing that never leaves the console pins: C16_PinRouting tells it
\* from swap
swap_Never(routed) == FALSE

\* Serial.swap() (lines 167 and 234): the UART moves from the console pins
\* to GPIO13/GPIO15 (routed, TRUE) or back
swap(routed) == ~routed

\* a scheduler that calls the bridge whatever the mode: C8_Terminal tells
\* it from loop
loop_Bridge == "serialPipe"

\* loop, lines 150-157: the function the scheduler calls
loop == IF configuration_mode THEN "configurationConsole" ELSE "serialPipe"

\* a call that leaves the status LED alone: C20_TickReturns tells it from
\* Heartbeat
Heartbeat_Skipped(state, change_ms, now) == << state, change_ms >>

\* the blink of serialPipe (lines 219-229): <<status_led_state,
\* status_led_change_ms>> afterwards
Heartbeat(state, change_ms, now) ==
  IF change_ms <= now
  THEN IF state = HIGH THEN << LOW, STATUS_LED_ON_MS + now >>
       ELSE << HIGH, STATUS_LED_OFF_MS + now >>
  ELSE << state, change_ms >>

\* Serial.read() / logger->read(): the byte at the head of the buffer, or
\* none when the buffer is empty
ReadByte(buf, none) == IF buf = << >> THEN none ELSE Head(buf)
AfterRead(buf) == IF buf = << >> THEN buf ELSE Tail(buf)

\* what setupSerialPipe applies: the rates, the radio settings and the port
setupSerialPipe(c) ==
  [begun |-> TRUE,
   serial_baud |-> DutBaud(c),
   logger_baud |-> LogBaud(c),
   tx_power |-> FloatBytes(DEFAULT_TX_POWER[1], DEFAULT_TX_POWER[2]),
   logged_tx_power |-> TxPower(c),
   ssid |-> Ssid(c),
   psk |-> Psk(c),
   listen_port |-> -1]

\* setup, lines 126-135: the console is opened and the configuration
\* loaded, which takes one of the durations `times`
setup(times) ==
  /\ pc = "boot"
  /\ boots < MaxBoots
  /\ \E pad \in PadValues, d \in times :
       LET r == load_config(fs_state, conf_file, serialpipe_config, pad)
       IN /\ fs_state' = r.fs
          /\ conf_file' = r.file
          /\ serialpipe_config' = r.config
          /\ load_found' = r.found
          /\ saved' = IF r.wrote THEN r.config
                       ELSE IF r.file = << >> THEN << >> ELSE saved
          /\ pc' = IF r.halt THEN "halt" ELSE "poll"
          /\ millis' = millis + d
          /\ poll_start' = IF r.halt THEN -1 ELSE millis + d
  /\ boots' = boots + 1
  /\ op' = "setup"
  /\ UNCHANGED << configuration_mode, swapped, logger, setups, key_at,
                  ledVars, consoleVars, bridgeVars, probe >>

\* setup, lines 137-147: one turn of the key loop, and the mode setup that
\* follows when the loop ends
setupPoll ==
  /\ pc = "poll"
  /\ LET ch == ReadByte(serial_rx, NO_DATA)
     IN IF ch = CONFIGURATION_KEY
        THEN \* setupConfigurationConsole
             /\ serial_rx' = << >>
             /\ configuration_mode' = TRUE
             /\ setups' = Append(setups, "setupConfigurationConsole")
             /\ pc' = "loop"
             /\ UNCHANGED << swapped, logger, radio, serial_afw >>
        ELSE IF millis >= CONFIG_CONSOLE_ENTRY_DELAY_MS
        THEN \* setupSerialPipe, up to the wait for the network
             /\ serial_rx' = << >>
             /\ swapped' = swap(swapped)
             /\ logger' = TRUE
             /\ radio' = setupSerialPipe(serialpipe_config)
             /\ serial_afw' = SerialFifo
             /\ setups' = Append(setups, "setupSerialPipe")
             /\ pc' = "wifi"
             /\ UNCHANGED configuration_mode
        ELSE /\ serial_rx' = AfterRead(serial_rx)
             /\ UNCHANGED << pc, configuration_mode, swapped, logger, setups,
                             radio, serial_afw >>
  /\ op' = "setupPoll"
  /\ UNCHANGED << boots, millis, poll_start, key_at, storeVars, ledVars,
                  logger_rx, cand, oob, serverClients, pending, tick,
                  wifi_up, events, probe >>

\* setupSerialPipe, lines 185-199: the network is up, the server starts
setupServer ==
  /\ pc = "wifi"
  /\ wifi_up
  /\ radio' = [radio EXCEPT !.listen_port = ListenPort(serialpipe_config)]
  /\ pc' = "loop"
  /\ op' = "setupServer"
  /\ UNCHANGED << boots, millis, configuration_mode, swapped, logger, setups,
                  poll_start, key_at, storeVars, ledVars, consoleVars,
                  serverClients, pending, serial_afw, tick, wifi_up, events,
                  probe >>

(****************************** the environment *****************************)

\* time passes
TimePasses(limit) ==
  /\ pc \in {"poll", "wifi", "loop", "confirm"}
  /\ millis < limit
  /\ millis' = millis + TimeStep
  /\ op' = "time"
  /\ UNCHANGED << pc, boots, configuration_mode, swapped, logger, setups,
                  poll_start, key_at, storeVars, ledVars, consoleVars,
                  bridgeVars, probe >>

\* the operator types a character of keys while the sketch is at one of
\* the places `where`: it reaches the UART while Serial is on the console
\* pins, and the SoftwareSerial logger once Serial is swapped
ConsoleKey(keys, where) ==
  /\ pc \in where
  /\ \E ch \in keys :
       /\ IF swapped
          THEN /\ Len(logger_rx) < MaxConsoleRx
               /\ logger_rx' = Append(logger_rx, ch)
               /\ UNCHANGED serial_rx
          ELSE /\ Len(serial_rx) < MaxConsoleRx
               /\ serial_rx' = Append(serial_rx, ch)
               /\ UNCHANGED logger_rx
       /\ key_at' = IF ch = CONFIGURATION_KEY /\ key_at = -1 THEN millis
                    ELSE key_at
  /\ op' = "key"
  /\ UNCHANGED << pc, boots, millis, configuration_mode, swapped, logger,
                  setups, poll_start, storeVars, ledVars, cand, oob,
                  bridgeVars, probe >>

\* the access point accepts the station
WifiConnects ==
  /\ pc = "wifi"
  /\ ~wifi_up
  /\ wifi_up' = TRUE
  /\ op' = "wifi"
  /\ UNCHANGED << pc, boots, millis, configuration_mode, swapped, logger,
                  setups, poll_start, key_at, storeVars, ledVars, consoleVars,
                  serverClients, pending, serial_afw, tick, radio, events,
                  probe >>

\* a peer connects to the listening socket
ClientConnects(budgets) ==
  /\ pc = "loop"
  /\ radio.begun
  /\ Len(pending) < MaxPending
  /\ \E id \in ClientIds, b \in budgets \ {0} :
       /\ \A i \in Slots : serverClients[i].id # id
       /\ \A k \in 1..Len(pending) : pending[k].id # id
       /\ \A j \in ClientIds :
            j < id => \/ \E i \in Slots : serverClients[i].id = j
                      \/ \E k \in 1..Len(pending) : pending[k].id = j
       /\ pending' = Append(pending, [id |-> id, conn |-> TRUE,
                                      rx |-> << >>, afw |-> b])
  /\ events < MaxEvents
  /\ events' = events + 1
  /\ tick' = NoTick
  /\ op' = "connect"
  /\ UNCHANGED << lifeVars_but_op, storeVars, ledVars, consoleVars,
                  serverClients, serial_afw, radio, wifi_up, probe >>

\* a connected peer sends bytes
ClientSends(datas) ==
  /\ pc = "loop"
  /\ \E i \in Slots, data \in datas :
       /\ serverClients[i].conn
       /\ Len(serverClients[i].rx) + Len(data) <= MaxClientRx
       /\ serverClients' = [serverClients EXCEPT ![i].rx = @ \o data]
  /\ events < MaxEvents
  /\ events' = events + 1
  /\ tick' = NoTick
  /\ op' = "send"
  /\ UNCHANGED << lifeVars_but_op, storeVars, ledVars, consoleVars, pending,
                  serial_afw, radio, wifi_up, probe >>

\* a peer closes its connection; the slot reads as disconnected once the
\* bytes it sent have been read
ClientCloses ==
  /\ pc = "loop"
  /\ \E i \in Slots :
       /\ serverClients[i].conn
       /\ serverClients[i].rx = << >>
       /\ serverClients' = [serverClients EXCEPT ![i].conn = FALSE,
                                                 ![i].afw = 0]
  /\ events < MaxEvents
  /\ events' = events + 1
  /\ tick' = NoTick
  /\ op' = "close"
  /\ UNCHANGED << lifeVars_but_op, storeVars, ledVars, consoleVars, pending,
                  serial_afw, radio, wifi_up, probe >>

\* a peer acknowledges data: the budget of its slot grows
ClientAcks(budgets) ==
  /\ pc = "loop"
  /\ \E i \in Slots, b \in budgets :
       /\ serverClients[i].conn
       /\ b > serverClients[i].afw
       /\ serverClients' = [serverClients EXCEPT ![i].afw = b]
  /\ events < MaxEvents
  /\ events' = events + 1
  /\ tick' = NoTick
  /\ op' = "ack"
  /\ UNCHANGED << lifeVars_but_op, storeVars, ledVars, consoleVars, pending,
                  serial_afw, radio, wifi_up, probe >>

\* the bytes base+1 .. base+n (mod 256)
Burst(base, n) == [k \in 1..n |-> (base + k) % 256]

\* the device under test sends bytes to the swapped UART
SerialReceives(bursts) ==
  /\ pc \in {"wifi", "loop"}
  /\ swapped
  /\ \E n \in bursts :
       /\ Len(serial_rx) + n <= MaxSerialRx
       /\ serial_rx' = serial_rx \o Burst(CONFIGURATION_KEY - 2 + Len(serial_rx), n)
  /\ events < MaxEvents
  /\ events' = events + 1
  /\ tick' = NoTick
  /\ op' = "rx"
  /\ UNCHANGED << lifeVars_but_op, storeVars, ledVars, logger_rx, cand, oob,
                  serverClients, pending, serial_afw, radio,
                  wifi_up, probe >>

\* the device under test sends MaxFlood bytes at once to the swapped UART,
\* whose receive buffer (RXBUFFERSIZE, 1024 bytes) is empty
SerialFloods ==
  /\ pc \in {"wifi", "loop"}
  /\ swapped
  /\ serial_rx = << >>
  /\ serial_rx' = Burst(0, MaxFlood)
  /\ events < MaxEvents
  /\ events' = events + 1
  /\ tick' = NoTick
  /\ op' = "flood"
  /\ UNCHANGED << lifeVars_but_op, storeVars, ledVars, logger_rx, cand, oob,
                  serverClients, pending, serial_afw, radio,
                  wifi_up, probe >>

\* the UART transmit FIFO empties
SerialTransmits ==
  /\ pc \in {"wifi", "loop"}
  /\ serial_afw < SerialFifo
  /\ serial_afw' = SerialFifo
  /\ events < MaxEvents
  /\ events' = events + 1
  /\ tick' = NoTick
  /\ op' = "tx"
  /\ UNCHANGED << lifeVars_but_op, storeVars, ledVars, consoleVars,
                  serverClients, pending, radio, wifi_up, probe >>

(******************************** the bridge ********************************)

\* "busy" followed by the line end of println
BUSY == << 98, 117, 115, 121, 13, 10 >>

\* the first len elements of a sequence, and what follows them
Take(q, len) == SubSeq(q, 1, len)
Drop(q, len) == SubSeq(q, len + 1, Len(q))

\* a search that prefers the highest free slot: C3_SlotAssignment tells it
\* from FreeSlot
FreeSlot_Last(clients) ==
  IF \E i \in Slots : ~clients[i].conn
  THEN CHOOSE i \in Slots :
         /\ ~clients[i].conn
         /\ \A j \in Slots : j > i => clients[j].conn
  ELSE MAX_SRV_CLIENTS

\* lines 244-250: the index at which the search for a free slot stops,
\* MAX_SRV_CLIENTS when every slot is connected
FreeSlot(clients) ==
  IF \E i \in Slots : ~clients[i].conn
  THEN CHOOSE i \in Slots :
         /\ ~clients[i].conn
         /\ \A j \in Slots : j < i => clients[j].conn
  ELSE MAX_SRV_CLIENTS

\* an accept step that leaves the connection on the listening socket when
\* every slot is connected: C2_Rejection tells it from Accept
Accept_Queue(clients, pend) ==
  IF pend = << >> \/ FreeSlot(clients) >= MAX_SRV_CLIENTS
  THEN [clients |-> clients, pending |-> pend, taken |-> << >>,
        slot |-> -1, busy |-> << >>]
  ELSE [clients |-> [clients EXCEPT ![FreeSlot(clients)] = Head(pend)],
        pending |-> Tail(pend), taken |-> << Head(pend).id >>,
        slot |-> FreeSlot(clients), busy |-> << >>]

\* lines 241-261: server.hasClient() and what follows it
Accept(clients, pend) ==
  IF pend = << >>
  THEN [clients |-> clients, pending |-> pend, taken |-> << >>,
        slot |-> -1, busy |-> << >>]
  ELSE LET i == FreeSlot(clients)
       IN IF i < MAX_SRV_CLIENTS
          THEN [clients |-> [clients EXCEPT ![i] = Head(pend)],
                pending |-> Tail(pend), taken |-> << Head(pend).id >>,
                slot |-> i, busy |-> << >>]
          ELSE [clients |-> clients, pending |-> Tail(pend),
                taken |-> << Head(pend).id >>, slot |-> -1,
                busy |-> << [id |-> Head(pend).id, text |-> BUSY,
                             stopped |-> TRUE] >>]

\* a drain that serves the highest slot first: C15_Drain tells it from
\* Drain
RECURSIVE Drain_Backwards(_, _, _, _, _)
Drain_Backwards(clients, i, afw, out, at) ==
  IF i >= MAX_SRV_CLIENTS \/ afw < 0
  THEN [clients |-> clients, afw |-> afw, to_serial |-> out, freed |-> -1]
  ELSE LET j == MAX_SRV_CLIENTS - 1 - i
           n == Min(Len(clients[j].rx), afw)
       IN Drain_Backwards([clients EXCEPT ![j].rx = Drop(clients[j].rx, n)],
                          i + 1, afw - n, out \o Take(clients[j].rx, n), at)

\* lines 266-270 from slot i on: the bytes a client has sent are written to
\* Serial, one by one, while Serial.availableForWrite() > 0.  The UART
\* shifts bytes out while the loops run: `at` is the slot during whose loop
\* it frees one place of a FIFO that the loop has filled (-1: none), which
\* matters when the client of that slot has more bytes than afw.  freed is
\* the slot at which that happened.
RECURSIVE Drain(_, _, _, _, _)
Drain(clients, i, afw, out, at) ==
  IF i >= MAX_SRV_CLIENTS \/ afw < 0
  THEN [clients |-> clients, afw |-> afw, to_serial |-> out, freed |-> -1]
  ELSE LET more == i = at /\ Len(clients[i].rx) > afw
           n    == IF more THEN afw + 1 ELSE Min(Len(clients[i].rx), afw)
           r    == Drain([clients EXCEPT ![i].rx = Drop(clients[i].rx, n)],
                         i + 1, IF more THEN 0 ELSE afw - n,
                         out \o Take(clients[i].rx, n), at)
       IN [r EXCEPT !.freed = IF more THEN i ELSE @]

\* client.availableForWrite(): 0 when the client is not connected
AvailableForWrite(c) == IF c.conn THEN c.afw ELSE 0

\* a bound that is the budget of the last connected client: C13_ChunkBound
\* tells it from MaxToTcp
MaxToTcp_Last(clients, i, maxToTcp) ==
  IF \E j \in Slots : clients[j].conn
  THEN clients[CHOOSE j \in Slots :
                 /\ clients[j].conn
                 /\ \A k \in Slots : k > j => ~clients[k].conn].afw
  ELSE 0

\* lines 274-288: the "fair TCP use" bound from slot i on
RECURSIVE MaxToTcp(_, _, _)
MaxToTcp(clients, i, maxToTcp) ==
  IF i >= MAX_SRV_CLIENTS \/ maxToTcp < 0 THEN maxToTcp
  ELSE IF clients[i].conn /\ AvailableForWrite(clients[i]) # 0
       THEN MaxToTcp(clients, i + 1,
                     IF maxToTcp = 0 THEN AvailableForWrite(clients[i])
                     ELSE Min(maxToTcp, AvailableForWrite(clients[i])))
       ELSE MaxToTcp(clients, i + 1, maxToTcp)

\* a chunk bounded by the serial buffer and the stack buffer alone:
\* C1_FanOut tells it from ChunkLen
ChunkLen_Unfair(avail, maxToTcp) == Min(avail, STACK_PROTECTOR)

\* lines 291-292
ChunkLen(avail, maxToTcp) == Min(Min(avail, maxToTcp), STACK_PROTECTOR)

\* a fan-out to every connected client: C14_Eligibility tells it from
\* Eligible
Eligible_Connected(c, serial_got) == c.conn

\* line 301: the client is given the chunk
Eligible(c, serial_got) == AvailableForWrite(c) >= serial_got

\* a bridge that also takes the configuration key from the bytes of the
\* device under test: C17_SoleSource tells it from Triggered
Triggered_Uart(rx) ==
  \/ ReadByte(rx, -1) = CONFIGURATION_KEY
  \/ \E k \in 1..Len(serial_rx) : serial_rx[k] = CONFIGURATION_KEY

\* a console read that never sees the configuration key: C7_SwitchAborts
\* tells it from Triggered
Triggered_Never(rx) == FALSE

\* line 232: the debug console delivers the configuration key
Triggered(rx) == ReadByte(rx, -1) = CONFIGURATION_KEY

\* lines 217-308.  at: see Drain; grow: the slot whose peer acknowledges GrowBy bytes
\* between the bound and the fan-out (-1: none); fail: the slot whose write
\* returns 0 because its connection was reset (-1: none)
serialPipe ==
  /\ pc = "loop"
  /\ loop = "serialPipe"
  /\ op' = "serialPipe"
  /\ LET led == Heartbeat(status_led_state, status_led_change_ms, millis)
     IN /\ status_led_state' = led[1]
        /\ status_led_change_ms' = led[2]
  /\ logger_rx' = AfterRead(logger_rx)
  /\ IF Triggered(logger_rx)
     THEN /\ swapped' = swap(swapped)
          /\ serial_rx' = << >>
          /\ configuration_mode' = TRUE
          /\ tick' = [NoTick EXCEPT !.trig = TRUE]
          /\ UNCHANGED << serverClients, pending, serial_afw >>
     ELSE \E at \in Slots \cup {-1} :
          LET a    == Accept(serverClients, pending)
              d    == Drain(a.clients, 0, serial_afw, << >>, at)
              seen == [i \in Slots |-> AvailableForWrite(d.clients[i])]
              max  == MaxToTcp(d.clients, 0, 0)
              len  == ChunkLen(Len(serial_rx), max)
          IN /\ pending' = a.pending
             /\ serial_afw' = d.afw
             /\ serial_rx' = Drop(serial_rx, len)
             /\ IF len = 0
                THEN /\ serverClients' = d.clients
                     /\ tick' = [NoTick EXCEPT !.taken = a.taken,
                                               !.slot = a.slot,
                                               !.busy = a.busy,
                                               !.to_serial = d.to_serial,
                                               !.freed = d.freed,
                                               !.seen = seen,
                                               !.maxToTcp = max,
                                               !.avail = Len(serial_rx)]
                ELSE \E grow \in Slots \cup {-1}, fail \in Slots \cup {-1} :
                     LET g   == [i \in Slots |->
                                   IF /\ i = grow
                                      /\ d.clients[i].conn
                                      /\ d.clients[i].afw + GrowBy <= MaxBudget
                                   THEN [d.clients[i] EXCEPT !.afw = @ + GrowBy]
                                   ELSE d.clients[i]]
                         fan == [i \in Slots |-> AvailableForWrite(g[i])]
                         to  == {i \in Slots : Eligible(g[i], len)}
                         ack == [i \in Slots |->
                                   IF i \in to /\ i # fail THEN len ELSE 0]
                     IN /\ serverClients' =
                             [i \in Slots |->
                                IF i \in to /\ i = fail
                                THEN [NoClient EXCEPT !.id = g[i].id]
                                ELSE [g[i] EXCEPT !.afw = @ - ack[i]]]
                        /\ tick' = [trig |-> FALSE, taken |-> a.taken,
                                    slot |-> a.slot, busy |-> a.busy,
                                    to_serial |-> d.to_serial,
                                    freed |-> d.freed,
                                    seen |-> seen, maxToTcp |-> max,
                                    avail |-> Len(serial_rx),
                                    chunk |-> Take(serial_rx, len),
                                    fan |-> fan,
                                    sent |-> [i \in Slots |->
                                                IF i \in to
                                                THEN Take(serial_rx, len)
                                                ELSE << >>],
                                    acked |-> ack]
             /\ UNCHANGED << swapped, configuration_mode >>
  /\ UNCHANGED << pc, boots, millis, logger, setups, poll_start, key_at,
                  storeVars, cand, oob, radio, wifi_up, events, probe >>

(************************* the configuration console ************************)

USER_INPUT_LED_ON_MS == 150

\* what the operator types for one field: the characters and the newline
Line(s) == Append(s, NEWLINE)

\* the six lines an operator may type, as the characters Serial.read()
\* returns (255: nothing buffered yet)
Sessions ==
  { \* lab1 / secret123 / 15.0 / 2323 / 9600 / 115200
    [ssid |-> Line(<< 108, 97, 98, 49 >>),
     psk |-> Line(<< 115, 101, 99, 114, 101, 116, 49, 50, 51 >>),
     tx_power |-> Line(<< 49, 53, 46, 48 >>),
     listen_port |-> Line(<< 50, 51, 50, 51 >>),
     dut_baud |-> Line(<< 57, 54, 48, 48 >>),
     log_baud |-> Line(<< 49, 49, 53, 50, 48, 48 >>)],
    \* the same SSID typed with a correction, and fields that are no numbers
    [ssid |-> Line(<< NO_DATA, 108, 97, 120, BACKSPACE, 98, NO_DATA, 49 >>),
     psk |-> Line(<< BACKSPACE, 112, 7, 119 >>),
     tx_power |-> Line(<< 45, 48, 46, 53 >>),
     listen_port |-> Line(<< 97, 98, 99 >>),
     dut_baud |-> Line(<< 32, 45, 49 >>),
     log_baud |-> Line(<< >>)],
    \* an SSID of 32 characters
    [ssid |-> Line(Rep(SSID_SIZE, 65)),
     psk |-> Line(<< 112, 119 >>),
     tx_power |-> Line(<< 49, 50 >>),
     listen_port |-> Line(<< 50, 51 >>),
     dut_baud |-> Line(<< 57, 54, 48, 48 >>),
     log_baud |-> Line(<< 57, 54, 48, 48 >>)],
    \* a pre-shared key of 80 characters
    [ssid |-> Line(<< 108, 97, 98, 49 >>),
     psk |-> Line(Rep(PSK_SIZE + 16, 66)),
     tx_power |-> Line(<< 49, 50 >>),
     listen_port |-> Line(<< 50, 51 >>),
     dut_baud |-> Line(<< 57, 54, 48, 48 >>),
     log_baud |-> Line(<< 57, 54, 48, 48 >>)] }

\* the blink console_read leaves when no time passes while it reads:
\* <<status_led_state, status_led_change_ms>>
ConsoleReadLed(stream, now) ==
  IF stream[1] = NEWLINE THEN << HIGH, 0 >>
  ELSE << LOW, USER_INPUT_LED_ON_MS + now >>

\* configurationConsole, lines 315-383: the buffered input is dropped, the
\* flash mounted and the six fields read
configurationConsole(sessions) ==
  /\ pc = "loop"
  /\ loop = "configurationConsole"
  /\ op' = "configurationConsole"
  /\ millis' = millis + CONSOLE_SETTLE_MS
  /\ serial_rx' = << >>
  /\ fs_state' = IF Mounts(fs_state) THEN fs_state ELSE FormatFs(fs_state)
  /\ conf_file' = IF Mounts(fs_state) THEN conf_file
                  ELSE FormatFile(fs_state, conf_file)
  /\ saved' = IF conf_file' = << >> THEN << >> ELSE saved
  /\ IF ~Mounts(fs_state')
     THEN /\ pc' = "halt"
          /\ UNCHANGED << cand, ledVars >>
     ELSE \E s \in sessions :
          /\ cand' = [set |-> TRUE,
                      new_ssid |-> console_read(s.ssid).input,
                      new_psk |-> console_read(s.psk).input,
                      new_tx_power |-> atof(console_read(s.tx_power).input),
                      new_listen_port |->
                        atoi(console_read(s.listen_port).input),
                      new_dut_baud |-> atoi(console_read(s.dut_baud).input),
                      new_log_baud |-> atoi(console_read(s.log_baud).input)]
          /\ LET led == ConsoleReadLed(s.log_baud, millis')
             IN /\ status_led_state' = led[1]
                /\ status_led_change_ms' = led[2]
          /\ pc' = "confirm"
  /\ UNCHANGED << boots, configuration_mode, swapped, logger, setups,
                  poll_start, key_at, serialpipe_config, load_found,
                  logger_rx, oob, bridgeVars, probe >>

\* a prompt that takes every character typed for a yes: C11_Discard tells
\* it from Stores
Stores_Any(ch) == ch # -1

\* the cases 'y' and 'Y' of the switch of lines 386-400
Stores(ch) == ch \in {121, 89}

\* the cases 'n' and 'N' of the switch of lines 401-405
Discards(ch) == ch \in {110, 78}

\* configurationConsole, lines 386-411: one turn of the y/N loop
confirm ==
  /\ pc = "confirm"
  /\ op' = "confirm"
  /\ serial_rx' = AfterRead(serial_rx)
  /\ LET ch == ReadByte(serial_rx, -1)
     IN IF Stores(ch)
        THEN \E pad \in PadValues :
             /\ serialpipe_config' =
                  CommitConfig(cand.new_ssid, cand.new_psk, cand.new_tx_power,
                               cand.new_listen_port, cand.new_dut_baud,
                               cand.new_log_baud)
             /\ oob' = CommitOut(cand.new_ssid, cand.new_psk)
             /\ conf_file' = save_config(serialpipe_config', fs_state,
                                         conf_file, pad)
             /\ saved' = IF Mounts(fs_state) THEN serialpipe_config'
                          ELSE saved
             /\ pc' = "restart"
        ELSE IF Discards(ch)
        THEN /\ pc' = "restart"
             /\ UNCHANGED << serialpipe_config, oob, conf_file, saved >>
        ELSE UNCHANGED << pc, serialpipe_config, oob, conf_file, saved >>
  /\ UNCHANGED << boots, millis, configuration_mode, swapped, logger, setups,
                  poll_start, key_at, fs_state, load_found, ledVars,
                  logger_rx, cand, bridgeVars, probe >>

\* configurationConsole, lines 412-415: ESP.restart()
restart ==
  /\ pc = "restart"
  /\ op' = "restart"
  /\ ResetGlobals
  /\ UNCHANGED << boots, fs_state, conf_file, saved, load_found, probe >>

(*************************** damage to the storage **************************)

\* the bits that flip in a damaged byte
CorruptMasks == { 1, 128, 255 }
\* the bytes of the record that may be damaged: the first and the last
\* byte of every field and bytes inside the strings, the crc (113) and the
\* three padding bytes
DamagedBytes ==
  { OFF_SSID, OFF_SSID + 4, OFF_PSK - 1, OFF_PSK, OFF_PSK + 31,
    OFF_TX_POWER - 1, OFF_TX_POWER, OFF_LISTEN_PORT - 1, OFF_LISTEN_PORT,
    OFF_LOG_BAUD - 1, OFF_LOG_BAUD, OFF_DUT_BAUD, SIZEOF_CONFIG,
    SIZEOF_CONFIG + 1, SIZEOF_CONFIG + 2, SIZEOF_CONFIG + 3,
    SIZEOF_CONFIG_FILE }

\* between two boots one byte of the record is damaged, or the record is
\* cut short or lost
StorageDamage(masks) ==
  /\ pc = "boot"
  /\ boots < MaxBoots
  /\ op = "restart"
  /\ conf_file # << >>
  /\ \/ \E at \in DamagedBytes \cap (1..Len(conf_file)), mask \in masks :
          conf_file' = [conf_file EXCEPT ![at] = BitXor(@, mask)]
     \/ conf_file' = Take(conf_file, SIZEOF_CONFIG)
     \/ conf_file' = << >>
  /\ op' = "damage"
  /\ UNCHANGED << lifeVars_but_op, fs_state, serialpipe_config, saved,
                  load_found, ledVars, consoleVars, bridgeVars, probe >>

\* between two boots the flash loses its file system, or wears out
StorageFails ==
  /\ pc = "boot"
  /\ boots < MaxBoots
  /\ op = "restart"
  /\ fs_state = "ok"
  /\ fs_state' \in {"unformatted", "dead"}
  /\ op' = "fail"
  /\ UNCHANGED << lifeVars_but_op, conf_file, serialpipe_config, saved,
                  load_found, ledVars, consoleVars, bridgeVars, probe >>

\* the flash loses its file system, or wears out, while the sketch runs:
\* the LittleFS.begin() of configurationConsole (line 334) and of
\* save_config (line 474) find it so
StorageFailsRunning ==
  /\ pc \in {"poll", "loop", "confirm"}
  /\ fs_state = "ok"
  /\ fs_state' \in {"unformatted", "dead"}
  /\ op' = "fail"
  /\ UNCHANGED << lifeVars_but_op, conf_file, serialpipe_config, saved,
                  load_found, ledVars, consoleVars, bridgeVars, probe >>

(***************************** the specification ****************************)

\* console_read is applied to a sequence of characters, at the uptime now
ConsoleReads(times) ==
  /\ probe.fn = "keys"
  /\ \E now \in times :
       LET r == console_read(probe.data)
       IN probe' = [fn |-> "console_read", data |-> probe.data, now |-> now,
                    input |-> r.input, echo |-> r.echo, next |-> r.next,
                    led |-> ConsoleReadLed(probe.data, now)]
  /\ op' = "console_read"
  /\ UNCHANGED << lifeVars_but_op, storeVars, ledVars, consoleVars,
                  bridgeVars >>

\* the byte sequence data with bit `bit` of its byte `at` flipped
Flip(data, at, bit) == [data EXCEPT ![at] = BitXor(@, 2 ^ bit)]

\* CRC8 is applied to a byte sequence and to the same sequence with one
\* bit flipped
CRC8Flip ==
  /\ probe.fn = "input"
  /\ \E at \in 1..Len(probe.data), bit \in 0..7 :
       probe' = [fn |-> "CRC8", data |-> probe.data, at |-> at, bit |-> bit,
                 crc |-> CRC8(probe.data, Len(probe.data)),
                 flipped |-> CRC8(Flip(probe.data, at, bit),
                                  Len(probe.data))]
  /\ op' = "CRC8"
  /\ UNCHANGED << lifeVars_but_op, storeVars, ledVars, consoleVars,
                  bridgeVars >>

\* the device at its first reset
Init ==
  /\ pc = "boot"
  /\ boots = 0
  /\ millis = 0
  /\ configuration_mode = FALSE
  /\ swapped = FALSE
  /\ logger = FALSE
  /\ op = "reset"
  /\ setups = << >>
  /\ poll_start = -1
  /\ key_at = -1
  /\ fs_state \in FsStates
  /\ conf_file = << >>
  /\ saved = << >>
  /\ load_found = "none"
  /\ serialpipe_config = ZeroConfig
  /\ status_led_state = HIGH
  /\ status_led_change_ms = 0
  /\ serial_rx = << >>
  /\ logger_rx = << >>
  /\ cand = NoCand
  /\ oob = 0
  /\ serverClients = [i \in Slots |-> NoClient]
  /\ pending = << >>
  /\ serial_afw = 0
  /\ tick = NoTick
  /\ radio = NoRadio
  /\ wifi_up = FALSE
  /\ events = 0
  /\ probe = NoProbe

\* the device at its first reset, with a flash that mounts
InitOk == Init /\ fs_state = "ok"

\* the session of the operator who types lab1 / secret123 / 15.0 / ...
LabSession == { s \in Sessions : Len(s.ssid) = 5 /\ Len(s.psk) = 10 }

Next ==
  \/ setup(LoadTimes)
  \/ setupPoll
  \/ setupServer
  \/ serialPipe
  \/ configurationConsole(LabSession)
  \/ confirm
  \/ restart
  \/ TimePasses(MaxMillis)
  \/ ConsoleKey(BridgeKeys, Running)
  \/ ConsoleKey(ConfirmKeys, {"confirm"})
  \/ WifiConnects

\* the whole life of the device with a quiet network and sound storage
Spec == Init /\ [][Next]_vars

NextAccept ==
  \/ setup(LoadTimes)
  \/ setupPoll
  \/ setupServer
  \/ serialPipe
  \/ TimePasses(CONFIG_CONSOLE_ENTRY_DELAY_MS)
  \/ WifiConnects
  \/ ConsoleKey({CONFIGURATION_KEY}, {"loop"})
  \/ ClientConnects({50})
  \/ ClientCloses

\* the bridge with peers that connect and close
SpecAccept == InitOk /\ [][NextAccept]_vars

NextFan ==
  \/ setup(LoadTimes)
  \/ setupPoll
  \/ setupServer
  \/ serialPipe
  \/ TimePasses(CONFIG_CONSOLE_ENTRY_DELAY_MS)
  \/ WifiConnects
  \/ ClientConnects({10, 50, 100})
  \/ ClientCloses
  \/ ClientAcks({50})
  \/ SerialReceives({40})

\* the bridge with peers that read at different paces and a device under
\* test that sends
SpecFan == InitOk /\ [][NextFan]_vars

NextSwitch ==
  \/ setup(LoadTimes)
  \/ setupPoll
  \/ setupServer
  \/ serialPipe
  \/ configurationConsole(LabSession)
  \/ TimePasses(CONFIG_CONSOLE_ENTRY_DELAY_MS)
  \/ WifiConnects
  \/ ConsoleKey({CONFIGURATION_KEY}, {"loop"})
  \/ ClientConnects({50})
  \/ ClientSends({<< 120 >>})
  \/ SerialReceives({40})
  \/ SerialTransmits

\* the bridge with traffic in both directions and an operator at the
\* debug console
SpecSwitch == InitOk /\ [][NextSwitch]_vars

NextStore ==
  \/ setup({0})
  \/ setupPoll
  \/ configurationConsole(Sessions)
  \/ confirm
  \/ restart
  \/ ConsoleKey({CONFIGURATION_KEY}, {"poll"})
  \/ ConsoleKey({121, 110}, {"confirm"})
  \/ StorageDamage(CorruptMasks)
  \/ StorageFails

\* the device over several boots, configured by an operator, with a flash
\* that may be damaged while the device is off
SpecStore == Init /\ [][NextStore]_vars

NextConsole ==
  \/ setup({0})
  \/ setupPoll
  \/ configurationConsole(LabSession)
  \/ confirm
  \/ restart
  \/ ConsoleKey({CONFIGURATION_KEY}, {"poll"})
  \/ ConsoleKey(ConfirmKeys, {"confirm"})
  \/ StorageFailsRunning

\* the device over several boots with an operator at the console and a flash
\* that may fail while the device runs
SpecConsole == Init /\ [][NextConsole]_vars

NextChunk ==
  \/ setup({0})
  \/ setupPoll
  \/ setupServer
  \/ serialPipe
  \/ TimePasses(CONFIG_CONSOLE_ENTRY_DELAY_MS)
  \/ WifiConnects
  \/ ClientConnects({600, 700})
  \/ SerialFloods

\* the bridge with a device under test that sends more than a chunk at once
\* and peers with large send buffers
SpecChunk == InitOk /\ [][NextChunk]_vars

NextDrain ==
  \/ setup({0})
  \/ setupPoll
  \/ setupServer
  \/ serialPipe
  \/ TimePasses(CONFIG_CONSOLE_ENTRY_DELAY_MS)
  \/ WifiConnects
  \/ ClientConnects({50})
  \/ ClientSends(ClientData)
  \/ SerialTransmits

\* the bridge with peers that send lines to the device under test
SpecDrain == InitOk /\ [][NextDrain]_vars

NextRelay ==
  \/ setup({0})
  \/ setupPoll
  \/ setupServer
  \/ serialPipe
  \/ TimePasses(CONFIG_CONSOLE_ENTRY_DELAY_MS)
  \/ WifiConnects
  \/ ConsoleKey(BridgeKeys, {"loop"})
  \/ ClientConnects({50})
  \/ ClientSends({<< CONFIGURATION_KEY, NEWLINE >>})
  \/ SerialReceives({2})

\* the bridge with a peer and a device under test that send the
\* configuration key, and an operator at the debug console
SpecRelay == InitOk /\ [][NextRelay]_vars

NextTick ==
  \/ setup({0})
  \/ setupPoll
  \/ setupServer
  \/ serialPipe
  \/ TimePasses(MaxMillis)
  \/ WifiConnects
  \/ ConsoleKey({CONFIGURATION_KEY}, {"loop"})
  \/ ClientConnects({50})
  \/ ClientSends({ << 120 >> })
  \/ SerialReceives({40})
  \/ SerialTransmits

\* loop() calls serialPipe: the step that a call of serialPipe makes, seen
\* from the scheduler (op records the function that ran last)
CallsSerialPipe == pc = "loop" /\ loop = "serialPipe" /\ op' = "serialPipe"

\* the bridge with traffic in both directions and an operator at the debug
\* console, under a scheduler that keeps calling loop() (the Arduino core
\* calls it again whenever it has returned): once something else than a
\* call of serialPipe has happened, a call of serialPipe follows
SpecTick == InitOk /\ [][NextTick]_vars /\ WF_op(CallsSerialPipe)

\* the longest sequence CRC8 accepts: len is a byte
MAX_CRC_LEN == 255
\* "123456789"
CheckString == << 49, 50, 51, 52, 53, 54, 55, 56, 57 >>
\* the sequences CRC8 is applied to: every sequence of up to MaxCrcLen
\* bytes of CrcBytes, the check string, the default configuration, and the
\* longest sequence of zeros
MaxCrcLen == 2
CrcBytes == { 0, 1, 128, 140, 165, 255 }
CrcInputs ==
  UNION { [1..n -> CrcBytes] : n \in 1..MaxCrcLen }
  \cup { CheckString, set_default_config(ZeroConfig), Rep(MAX_CRC_LEN, 0) }

InitCRC ==
  /\ pc = "boot"
  /\ boots = 0
  /\ millis = 0
  /\ configuration_mode = FALSE
  /\ swapped = FALSE
  /\ logger = FALSE
  /\ op = "reset"
  /\ setups = << >>
  /\ poll_start = -1
  /\ key_at = -1
  /\ fs_state = "ok"
  /\ conf_file = << >>
  /\ saved = << >>
  /\ load_found = "none"
  /\ serialpipe_config = ZeroConfig
  /\ status_led_state = HIGH
  /\ status_led_change_ms = 0
  /\ serial_rx = << >>
  /\ logger_rx = << >>
  /\ cand = NoCand
  /\ oob = 0
  /\ serverClients = [i \in Slots |-> NoClient]
  /\ pending = << >>
  /\ serial_afw = 0
  /\ tick = NoTick
  /\ radio = NoRadio
  /\ wifi_up = FALSE
  /\ events = 0
  /\ probe \in { [fn |-> "input", data |-> d] : d \in CrcInputs }

\* the characters console_read is applied to: printable ones (' ', 'A',
\* '~'), backspace, newline, carriage return, DEL and the 255 of a read
\* that found nothing
MaxLineLen == 3
ConsoleChars == { 32, 65, 126, BACKSPACE, NEWLINE, 13, 127, NO_DATA }
\* every sequence of up to MaxLineLen of them, and the SSID lines of Sessions
ConsoleInputs ==
  UNION { [1..n -> ConsoleChars] : n \in 1..MaxLineLen }
  \cup { s.ssid : s \in Sessions }

InitConsoleRead ==
  /\ pc = "boot"
  /\ boots = 0
  /\ millis = 0
  /\ configuration_mode = FALSE
  /\ swapped = FALSE
  /\ logger = FALSE
  /\ op = "reset"
  /\ setups = << >>
  /\ poll_start = -1
  /\ key_at = -1
  /\ fs_state = "ok"
  /\ conf_file = << >>
  /\ saved = << >>
  /\ load_found = "none"
  /\ serialpipe_config = ZeroConfig
  /\ status_led_state = HIGH
  /\ status_led_change_ms = 0
  /\ serial_rx = << >>
  /\ logger_rx = << >>
  /\ cand = NoCand
  /\ oob = 0
  /\ serverClients = [i \in Slots |-> NoClient]
  /\ pending = << >>
  /\ serial_afw = 0
  /\ tick = NoTick
  /\ radio = NoRadio
  /\ wifi_up = FALSE
  /\ events = 0
  /\ probe \in { [fn |-> "keys", data |-> d] : d \in ConsoleInputs }

NextConsoleRead == ConsoleReads({0, CONSOLE_SETTLE_MS})

\* console_read applied to sequences of characters
SpecConsoleRead == InitConsoleRead /\ [][NextConsoleRead]_vars

NextCRC == CRC8Flip

\* CRC8 applied to byte sequences
SpecCRC == InitCRC /\ [][NextCRC]_vars

(******************************** properties ********************************)

\* the record save_config writes for the configuration c, without its
\* padding
Record(c) == c \o << CRC8(c, SIZEOF_CONFIG) >>

\* C4: when setup runs on a flash that mounts and that has not been
\* damaged since the last save_config, load_config leaves in memory the
\* configuration that save_config was given, byte for byte and so field
\* for field, and leaves the record as it is.
C4_RoundTrip ==
  [][ ( /\ op' = "setup"
        /\ op \notin {"damage", "fail"}
        /\ Mounts(fs_state)
        /\ saved # << >> )
      => /\ serialpipe_config' = saved
         /\ Ssid(serialpipe_config') = Ssid(saved)
         /\ Psk(serialpipe_config') = Psk(saved)
         /\ TxPower(serialpipe_config') = TxPower(saved)
         /\ ListenPort(serialpipe_config') = ListenPort(saved)
         /\ DutBaud(serialpipe_config') = DutBaud(saved)
         /\ LogBaud(serialpipe_config') = LogBaud(saved)
         /\ conf_file' = conf_file
         /\ pc' = "poll" ]_vars

\* the second boot has loaded lab1 / secret123 / 15.0 / 2323 / 9600 /
\* 115200, which the operator committed during the first
C4_Witness ==
  /\ op = "setup"
  /\ boots = 2
  /\ load_found = "good"
  /\ serialpipe_config = saved
  /\ Ssid(serialpipe_config) = << 108, 97, 98, 49 >>
  /\ Psk(serialpipe_config) = << 115, 101, 99, 114, 101, 116, 49, 50, 51 >>
  /\ TxPower(serialpipe_config) = FloatBytes(15, 1)
  /\ ListenPort(serialpipe_config) = 2323
  /\ DutBaud(serialpipe_config) = 9600
  /\ LogBaud(serialpipe_config) = 115200

\* load_config has returned with the defaults in memory and on the flash
Healed ==
  /\ serialpipe_config' = set_default_config(ZeroConfig)
  /\ Ssid(serialpipe_config') = DEFAULT_SSID
  /\ Psk(serialpipe_config') = DEFAULT_PSK
  /\ TxPower(serialpipe_config') = FloatBytes(12, 1)
  /\ ListenPort(serialpipe_config') = 23
  /\ DutBaud(serialpipe_config') = 115200
  /\ LogBaud(serialpipe_config') = 115200
  /\ Len(conf_file') = SIZEOF_CONFIG_FILE
  /\ Take(conf_file', SIZEOF_CONFIG + 1) = Record(serialpipe_config')

\* C5 as the specification states it: when load_config returns after it
\* found no record, a record of another size, or a record of which one
\* byte, any of them, was damaged, the defaults are in memory and on the
\* flash.
C5_Original ==
  [][ ( /\ op' = "setup"
        /\ pc' = "poll"
        /\ \/ conf_file = << >>
           \/ Len(conf_file) # SIZEOF_CONFIG_FILE
           \/ op = "damage" )
      => Healed ]_vars

\* C5: when load_config returns after it found no record, a record of
\* another size, or a record of which one of the first 113 bytes (the
\* configuration and the crc) was damaged, the defaults are in memory and
\* on the flash.
C5_SelfHealing ==
  [][ ( /\ op' = "setup"
        /\ pc' = "poll"
        /\ \/ conf_file = << >>
           \/ Len(conf_file) # SIZEOF_CONFIG_FILE
           \/ /\ op = "damage"
              /\ Take(conf_file, SIZEOF_CONFIG + 1) # Record(saved) )
      => Healed ]_vars

\* the second boot found a record whose crc did not match and replaced it
\* by the defaults
C5_Witness ==
  /\ op = "setup"
  /\ boots = 2
  /\ load_found = "crc"
  /\ saved = serialpipe_config
  /\ serialpipe_config = set_default_config(ZeroConfig)
  /\ Take(conf_file, SIZEOF_CONFIG + 1) = Record(serialpipe_config)

\* C6: flipping any one bit of a byte sequence changes its CRC8, and CRC8
\* is the Dallas/Maxim CRC: its value for "123456789" is 0xA1.
C6_Detects ==
  probe.fn = "CRC8" =>
    /\ probe.crc \in 0..255
    /\ probe.flipped \in 0..255
    /\ probe.crc # probe.flipped
    /\ probe.data = CheckString => probe.crc = 161

\* the last bit of the longest sequence was flipped
C6_Witness ==
  /\ probe.fn = "CRC8"
  /\ Len(probe.data) = MAX_CRC_LEN
  /\ probe.at = MAX_CRC_LEN
  /\ probe.bit = 7
  /\ probe.crc = 0
  /\ probe.flipped # 0

\* a call of serialPipe that went past the console read with 40 bytes
\* buffered on the UART, and clients whose budgets were among 50, 10, 100,
\* the 10 and a larger one included
C1_Case ==
  /\ op = "serialPipe"
  /\ ~tick.trig
  /\ tick.avail = 40
  /\ \A i \in Slots : tick.seen[i] \in {50, 10, 100}
  /\ \E i \in Slots : tick.seen[i] = 10
  /\ \E i \in Slots : tick.seen[i] # 10

\* C1 as the specification states it: with budgets among 50, 10 and 100
\* and 40 bytes available, the chunk has 40 bytes, it is written to the
\* clients whose budget is 50 or 100, and nothing is written to the client
\* whose budget is 10.
C1_Original ==
  C1_Case =>
    /\ Len(tick.chunk) = 40
    /\ \A i \in Slots :
         tick.sent[i] = IF tick.seen[i] = 10 THEN << >> ELSE tick.chunk

\* C1: with budgets 50 and 10 (or 10 and 100) and 40 bytes available, the
\* chunk has 10 bytes, the smallest budget; it is written to both clients,
\* and the other 30 bytes stay buffered on the UART.
C1_FanOut ==
  C1_Case =>
    /\ Len(tick.chunk) = 10
    /\ Len(serial_rx) = 30
    /\ tick.maxToTcp = 10
    /\ \A i \in Slots : tick.sent[i] = tick.chunk

C1_Witness ==
  /\ C1_Case
  /\ tick.seen[0] = 50
  /\ tick.seen[1] = 10
  /\ Len(tick.chunk) = 10
  /\ tick.sent[1] = tick.chunk

\* what the peer of a rejected connection gets
Rejected(c) == << [id |-> c.id, text |-> BUSY, stopped |-> TRUE] >>

\* a connection waits and every slot is connected
C2_Case == pending # << >> /\ \A i \in Slots : serverClients[i].conn

\* what C2 promises of a step
C2_Outcome ==
  /\ tick'.busy = Rejected(Head(pending))
  /\ pending' = Tail(pending)
  /\ \A i \in Slots : serverClients'[i].id # Head(pending).id
  /\ \A i \in Slots : serverClients'[i].id = serverClients[i].id

\* C2 as the specification states it: in any call of serialPipe that
\* finds a connection waiting and every slot connected, the connection is
\* sent "busy" and stopped, it does not stay queued, and every slot holds
\* the client it held.
C2_Original ==
  [][ (op' = "serialPipe" /\ C2_Case) => C2_Outcome ]_vars

\* C2: in any call of serialPipe whose console read does not return the
\* configuration key, and that finds a connection waiting and every slot
\* connected, the connection is sent "busy" and stopped, it does not stay
\* queued, and every slot holds the client it held.
C2_Rejection ==
  [][ ( /\ op' = "serialPipe"
        /\ ReadByte(logger_rx, -1) # CONFIGURATION_KEY
        /\ C2_Case ) => C2_Outcome ]_vars

C2_Witness ==
  /\ op = "serialPipe"
  /\ tick.busy # << >>
  /\ tick.busy[1].id = 3
  /\ tick.busy[1].text = BUSY
  /\ \A i \in Slots : serverClients[i].conn /\ serverClients[i].id # 3

\* C3: every call of serialPipe takes at most one connection from the
\* listening socket (exactly one when a connection waits and the console
\* read does not return the configuration key); when a slot is
\* disconnected the connection taken is stored in the lowest disconnected
\* slot, and every other slot is left as it was.
C3_SlotAssignment ==
  [][ op' = "serialPipe" =>
        /\ Len(tick'.taken) <= 1
        /\ Len(pending) - Len(pending') = Len(tick'.taken)
        /\ tick'.taken # << >> => tick'.taken = << Head(pending).id >>
        /\ ( /\ pending # << >>
             /\ ReadByte(logger_rx, -1) # CONFIGURATION_KEY )
           => tick'.taken # << >>
        /\ \A k \in Slots :
             ( /\ tick'.taken # << >>
               /\ ~serverClients[k].conn
               /\ \A j \in Slots : j < k => serverClients[j].conn )
             => /\ tick'.slot = k
                /\ serverClients'[k] = Head(pending)
                /\ \A i \in Slots \ {k} :
                     serverClients'[i] = serverClients[i] ]_vars

\* slot 0 was freed by its client and is reused by the third arrival while
\* slot 1 still holds the second arrival
C3_Witness ==
  /\ op = "serialPipe"
  /\ tick.slot = 0
  /\ tick.taken = << 3 >>
  /\ serverClients[0].id = 3
  /\ serverClients[0].conn
  /\ serverClients[1].id = 2
  /\ serverClients[1].conn

\* C7: the call of serialPipe whose console read returns the configuration
\* key accepts and rejects no connection, writes nothing to the UART or to
\* a client, takes no byte of the UART into a chunk, and sets
\* configuration_mode; the next call made by loop is configurationConsole.
C7_SwitchAborts ==
  [][ /\ ( /\ op' = "serialPipe"
           /\ ReadByte(logger_rx, -1) = CONFIGURATION_KEY )
         => /\ configuration_mode'
            /\ tick'.trig
            /\ tick'.taken = << >>
            /\ tick'.busy = << >>
            /\ tick'.to_serial = << >>
            /\ tick'.chunk = << >>
            /\ \A i \in Slots : tick'.sent[i] = << >>
            /\ pending' = pending
            /\ serverClients' = serverClients
            /\ serial_afw' = serial_afw
      /\ ( /\ op = "serialPipe"
           /\ tick.trig
           /\ op' \in {"serialPipe", "configurationConsole"} )
         => op' = "configurationConsole" ]_vars

\* the configuration console has run right after a call of serialPipe that
\* left a waiting connection and unread bytes of a client alone
C7_Witness ==
  /\ op = "configurationConsole"
  /\ configuration_mode
  /\ pending # << >>
  /\ \E i \in Slots : serverClients[i].conn /\ serverClients[i].rx # << >>

\* the answers that end the confirmation prompt: 'y', 'Y', 'n', 'N'
Answers == ConfirmKeys \ { 120 }

\* C8: while configuration_mode is set no step before the restart clears
\* it and none is a call of serialPipe; the turn of the confirmation loop
\* that reads y, Y, n or N leaves the loop for the restart, and the restart
\* is the only step that follows.
C8_Terminal ==
  [][ /\ (configuration_mode /\ op' # "restart")
         => (configuration_mode' /\ op' # "serialPipe")
      /\ (op' = "confirm" /\ ReadByte(serial_rx, -1) \in Answers)
         => pc' = "restart"
      /\ pc = "restart"
         => (op' = "restart" /\ pc' = "boot" /\ ~configuration_mode') ]_vars

\* the operator has answered the prompt of a console that was entered from
\* the bridge
C8_Witness ==
  /\ pc = "restart"
  /\ op = "confirm"
  /\ configuration_mode
  /\ setups = << "setupSerialPipe" >>

\* C9 as the specification states it: once setup has left the key loop
\* exactly one mode setup has run, once; it is setupConfigurationConsole
\* when the first 'c' arrived less than CONFIG_CONSOLE_ENTRY_DELAY_MS after
\* the loop began, and setupSerialPipe otherwise.
C9_Original ==
  /\ Len(setups) <= 1
  /\ pc \in {"wifi", "loop", "confirm", "restart"} =>
       /\ Len(setups) = 1
       /\ setups[1] = IF /\ key_at # -1
                         /\ key_at - poll_start < CONFIG_CONSOLE_ENTRY_DELAY_MS
                      THEN "setupConfigurationConsole"
                      ELSE "setupSerialPipe"

\* C10 as the specification states it: in every state the ssid field holds
\* a terminator among its 32 bytes and the psk field one among its 64, and
\* no byte outside the configuration has been written; the commit leaves
\* the four numeric fields with the values the operator gave.
C10_Original ==
  /\ [] /\ serialpipe_config # ZeroConfig =>
             /\ \E k \in 0..(SSID_SIZE - 1) :
                  serialpipe_config[OFF_SSID + k] = 0
             /\ \E k \in 0..(PSK_SIZE - 1) :
                  serialpipe_config[OFF_PSK + k] = 0
        /\ oob = 0
  /\ [][ (op' = "confirm" /\ ReadByte(serial_rx, -1) \in {121, 89}) =>
           /\ TxPower(serialpipe_config') = cand.new_tx_power
           /\ ListenPort(serialpipe_config') = cand.new_listen_port
           /\ DutBaud(serialpipe_config') = cand.new_dut_baud
           /\ LogBaud(serialpipe_config') = cand.new_log_baud ]_vars

(******************************* C11: discard *******************************)

\* the character the y/N loop reads in this turn
Answer == ReadByte(serial_rx, -1)
\* the configuration that a commit of the candidate would give
Candidate ==
  CommitConfig(cand.new_ssid, cand.new_psk, cand.new_tx_power,
               cand.new_listen_port, cand.new_dut_baud, cand.new_log_baud)

\* C11 as stated: a turn of the y/N loop that reads neither y/Y nor n/N
\* changes nothing but the input it consumed, n/N leaves the configuration
\* in memory and the persisted record as they were when the console was
\* entered, and the persisted record changes only in a turn that reads y/Y
\* or in the load of a boot
C11_Original ==
  [][ /\ (op' = "confirm" /\ Answer \notin {121, 89, 110, 78})
          => UNCHANGED << pc, storeVars, cand, oob >>
      /\ (op' = "confirm" /\ Answer \in {110, 78})
          => UNCHANGED << serialpipe_config, conf_file >>
      /\ op' = "configurationConsole"
          => UNCHANGED << serialpipe_config, conf_file >>
      /\ conf_file' # conf_file
          => \/ op' = "confirm" /\ Answer \in {121, 89}
             \/ op' = "setup" ]_vars

\* C11, amended: as C11_Original, where the persisted record is as it was
\* when the console was entered provided the flash mounted at the entry
\* (a flash that does not mount is formatted there, which erases the
\* record); and the boot that follows the restart, with a flash that
\* mounts, loads the persisted configuration and leaves the record alone
C11_Discard ==
  [][ /\ (op' = "confirm" /\ Answer \notin {121, 89, 110, 78})
          => UNCHANGED << pc, storeVars, cand, oob >>
      /\ (op' = "confirm" /\ Answer \in {110, 78})
          => /\ UNCHANGED << serialpipe_config, conf_file, saved >>
             /\ pc' = "restart"
      /\ op' = "configurationConsole"
          => /\ UNCHANGED serialpipe_config
             /\ Mounts(fs_state) => UNCHANGED conf_file
             /\ ~Mounts(fs_state) => conf_file' = FormatFile(fs_state, conf_file)
      /\ op' = "restart" => UNCHANGED conf_file
      /\ conf_file' # conf_file
          => \/ op' = "confirm" /\ Answer \in {121, 89}
             \/ op' = "setup"
             \/ op' = "configurationConsole" /\ ~Mounts(fs_state)
      /\ (op' = "setup" /\ op = "restart" /\ Mounts(fs_state)
           /\ saved # << >>)
          => /\ serialpipe_config' = saved
             /\ UNCHANGED conf_file ]_vars

\* the operator has answered n to a candidate that differs from the
\* configuration in memory, which is still the one the record holds
C11_Witness ==
  /\ pc = "restart"
  /\ op = "confirm"
  /\ cand.set
  /\ Candidate # serialpipe_config
  /\ saved = serialpipe_config
  /\ Len(conf_file) = SIZEOF_CONFIG_FILE
  /\ Slice(conf_file, 1, SIZEOF_CONFIG) = serialpipe_config

(************************ C12: fatal storage failure ************************)

\* C12: when setup runs on a flash that does not mount, load_config formats
\* it once and mounts again; when that mount succeeds the boot goes on to
\* the key loop, and when it fails too the sketch stops inside load_config:
\* no record is written, no mode is set up then or later, and no step
\* follows.
C12_FatalHalt ==
  [][ /\ (op' = "setup" /\ fs_state = "unformatted")
          => /\ fs_state' = "ok"
             /\ pc' = "poll"
             /\ load_found' = "absent"
      /\ (op' = "setup" /\ fs_state = "dead")
          => /\ pc' = "halt"
             /\ load_found' = "none"
             /\ setups' = << >>
             /\ ~configuration_mode' /\ ~swapped' /\ ~radio'.begun
             /\ UNCHANGED << fs_state, conf_file, saved, serialpipe_config >>
      /\ pc # "halt" ]_vars

\* the second boot has stopped in load_config on a flash that wore out
\* after a record was written, and the record is still the one written
C12_Witness ==
  /\ pc = "halt"
  /\ op = "setup"
  /\ boots = 2
  /\ fs_state = "dead"
  /\ setups = << >>
  /\ Len(conf_file) = SIZEOF_CONFIG_FILE
  /\ Take(conf_file, SIZEOF_CONFIG) = saved

(**************************** C13: the chunk size ***************************)

\* the least element of a non-empty set of numbers
Least(S) == CHOOSE m \in S : \A x \in S : m <= x
\* the budget client i reports when the bound is computed in the call of
\* serialPipe that this step makes: the budget of the client in the slot,
\* or of the connection the call has just put there
BudgetAtBound(i) ==
  IF serverClients[i].conn THEN serverClients[i].afw
  ELSE IF tick'.slot = i THEN Head(pending).afw
  ELSE 0
\* B: the least non-zero budget of a connected client, 0 without one
FairBound ==
  LET S == { BudgetAtBound(i) : i \in Slots } \ {0}
  IN IF S = {} THEN 0 ELSE Least(S)

C13_Congested ==
  /\ op = "serialPipe"
  /\ ~tick.trig
  /\ tick.avail > 0
  /\ tick.maxToTcp = 0
  /\ tick.chunk = << >>
  /\ \E i \in Slots : serverClients[i].conn /\ serverClients[i].afw = 0

(***************************** C14: the fan-out *****************************)

\* C14: in a call of serialPipe that does not switch the mode, the budget a
\* slot reports at the fan-out is the one it reported for the bound or
\* that one grown by what its peer acknowledged meanwhile; the chunk is
\* written, whole, to the slots whose budget at the fan-out is at least its
\* length and to no other slot, so no slot is given more than its budget;
\* the budget of a slot shrinks by what its write accepted; and a write that
\* accepts less than the chunk changes nothing for the other slots.
C14_Eligibility ==
  [][ (op' = "serialPipe" /\ ~tick'.trig)
      => LET chunk == tick'.chunk
         IN \A i \in Slots :
              IF chunk = << >>
              THEN /\ tick'.sent[i] = << >>
                   /\ tick'.acked[i] = 0
                   /\ AvailableForWrite(serverClients'[i]) = BudgetAtBound(i)
              ELSE /\ tick'.fan[i] \in { BudgetAtBound(i),
                                         BudgetAtBound(i) + GrowBy }
                   /\ tick'.sent[i] = IF tick'.fan[i] >= Len(chunk)
                                      THEN chunk ELSE << >>
                   /\ Len(tick'.sent[i]) <= tick'.fan[i]
                   /\ tick'.acked[i] \in {0, Len(tick'.sent[i])}
                   /\ tick'.acked[i] = Len(tick'.sent[i])
                        => AvailableForWrite(serverClients'[i])
                             = tick'.fan[i] - tick'.acked[i] ]_vars

\* a call has written the chunk to both slots; the write to slot 0 accepted
\* nothing and the write to slot 1 accepted the chunk
C14_Witness ==
  /\ op = "serialPipe"
  /\ tick.chunk # << >>
  /\ tick.sent[0] = tick.chunk
  /\ tick.acked[0] = 0
  /\ tick.sent[1] = tick.chunk
  /\ tick.acked[1] = Len(tick.chunk)

\* a call has written the chunk to one slot and nothing to the other,
\* whose client is connected and congested
C14_Skipped ==
  /\ op = "serialPipe"
  /\ tick.chunk # << >>
  /\ \E i, j \in Slots :
       /\ tick.sent[i] = tick.chunk
       /\ tick.sent[j] = << >>
       /\ serverClients[j].conn
       /\ tick.fan[j] < Len(tick.chunk)

\* a call has written the chunk to a slot that was congested when the
\* bound was computed and whose peer acknowledged data before the fan-out
C14_Grown ==
  /\ op = "serialPipe"
  /\ tick.chunk # << >>
  /\ \E i \in Slots :
       /\ tick.seen[i] = 0
       /\ tick.fan[i] >= Len(tick.chunk)
       /\ tick.sent[i] = tick.chunk

(****************************** C15: the drain ******************************)

\* the unread bytes of slot i when the loops of lines 266-270 start in the
\* call of serialPipe that this step makes
UnreadAtDrain(i) ==
  IF tick'.slot = i THEN Head(pending).rx ELSE serverClients[i].rx
\* the write of the chunk to slot i failed in that call: the connection was
\* reset, and its unread bytes are gone
WriteFailed(i) == tick'.sent[i] # << >> /\ tick'.acked[i] = 0
\* the places the UART freed while the loops ran
Freed == IF tick'.freed = -1 THEN 0 ELSE 1

\* what C15 and its amended form share: the bytes written to Serial are
\* the first k0 unread bytes of slot 0 followed by the first k1 unread
\* bytes of slot 1, in their order and unchanged; they are no more than the
\* places the UART had free; the bytes not taken stay unread, in their
\* order; without a free place nothing is taken; and Ordered(k0, k1) holds
DrainsInOrder(Ordered(_, _)) ==
  \E k0 \in 0..Len(UnreadAtDrain(0)), k1 \in 0..Len(UnreadAtDrain(1)) :
    /\ tick'.to_serial = Take(UnreadAtDrain(0), k0)
                           \o Take(UnreadAtDrain(1), k1)
    /\ ~WriteFailed(0) => serverClients'[0].rx = Drop(UnreadAtDrain(0), k0)
    /\ ~WriteFailed(1) => serverClients'[1].rx = Drop(UnreadAtDrain(1), k1)
    /\ k0 + k1 <= serial_afw + Freed
    /\ serial_afw' = serial_afw + Freed - (k0 + k1)
    /\ (serial_afw = 0 /\ Freed = 0) => k0 + k1 = 0
    /\ k0 = Min(Len(UnreadAtDrain(0)),
                serial_afw + IF tick'.freed = 0 THEN 1 ELSE 0)
    /\ Ordered(k0, k1)

\* C15 as stated: slot 1 is drained only when slot 0 has been drained fully
C15_Original ==
  [][ (op' = "serialPipe" /\ ~tick'.trig)
      => DrainsInOrder(LAMBDA k0, k1 :
                         k1 > 0 => k0 = Len(UnreadAtDrain(0))) ]_vars

\* C15, amended: the loop of slot 0 ends before the loop of slot 1 starts,
\* so the bytes of slot 0 written in a call precede those of slot 1; slot 1
\* is drained when slot 0 has been drained fully or when the UART freed a
\* place after the loop of slot 0 had ended for want of one
C15_Drain ==
  [][ (op' = "serialPipe" /\ ~tick'.trig)
      => DrainsInOrder(LAMBDA k0, k1 :
                         k1 > 0 => \/ k0 = Len(UnreadAtDrain(0))
                                   \/ tick'.freed = 1) ]_vars

\* a call has written to Serial the byte of slot 0 and then, the UART
\* having freed a place, the first of the two bytes of slot 1, whose second
\* byte is still unread
C15_Witness ==
  /\ op = "serialPipe"
  /\ tick.to_serial = << 120, CONFIGURATION_KEY >>
  /\ tick.freed = 1
  /\ serverClients[0].rx = << >>
  /\ serverClients[1].rx = << NEWLINE >>

\* a call has written to Serial a byte of slot 1 and left a byte of slot 0
\* unread
C15_Overtaken ==
  /\ op = "serialPipe"
  /\ tick.freed = 1
  /\ Len(tick.to_serial) = 2
  /\ serverClients[0].conn
  /\ serverClients[0].rx # << >>

\* a call has written to Serial the two bytes of slot 0 in their order
C15_InOrder ==
  /\ op = "serialPipe"
  /\ tick.to_serial = << CONFIGURATION_KEY, NEWLINE >>
  /\ tick.freed = 0

(*************************** C16: the pin routing ***************************)

\* Bridge Mode: setupSerialPipe has run and the mode has not been switched
BridgeMode == pc \in {"wifi", "loop"} /\ ~configuration_mode

\* C16: the UART is on the bridge pins exactly while the sketch is in
\* Bridge Mode, and on the console pins while it selects the mode, runs the
\* configuration console or has stopped; the routing changes in exactly
\* the steps that enter or leave Bridge Mode, which are the key loop's
\* choice of setupSerialPipe and the call of serialPipe that reads the
\* configuration key.
C16_PinRouting ==
  /\ [](swapped <=> BridgeMode)
  /\ [][ /\ (swapped' # swapped) <=> (BridgeMode' # BridgeMode)
         /\ (swapped' # swapped)
            => \/ /\ op' = "setupPoll"
                  /\ setups' = Append(setups, "setupSerialPipe")
               \/ op' = "serialPipe" /\ tick'.trig ]_vars

\* the call of serialPipe that read the configuration key has put the UART
\* back on the console pins, for the configuration console that follows
C16_Witness ==
  /\ op = "serialPipe"
  /\ tick.trig
  /\ configuration_mode
  /\ ~swapped
  /\ setups = << "setupSerialPipe" >>

(********************** C17: the source of the switch ***********************)

\* the byte b occurs in the sequence q
Occurs(b, q) == \E k \in 1..Len(q) : q[k] = b

\* C17: in Bridge Mode configuration_mode is set only by a call of
\* serialPipe whose read of the debug console returns the configuration
\* key; a call whose read returns anything else leaves the mode alone,
\* whatever the clients and the device under test have sent, writes to
\* Serial the bytes it takes from the clients as they are, and sends the
\* clients the first bytes of the UART as they are.
C17_SoleSource ==
  [][ /\ (BridgeMode /\ configuration_mode')
         => /\ op' = "serialPipe"
            /\ ReadByte(logger_rx, -1) = CONFIGURATION_KEY
      /\ (op' = "serialPipe" /\ ReadByte(logger_rx, -1) # CONFIGURATION_KEY)
         => /\ ~configuration_mode'
            /\ swapped'
            /\ ~tick'.trig
            /\ \E k0 \in 0..Len(UnreadAtDrain(0)),
                  k1 \in 0..Len(UnreadAtDrain(1)) :
                 tick'.to_serial = Take(UnreadAtDrain(0), k0)
                                     \o Take(UnreadAtDrain(1), k1)
            /\ tick'.chunk = Take(serial_rx, Len(tick'.chunk))
            /\ serial_rx' = Drop(serial_rx, Len(tick'.chunk))
            /\ \A i \in Slots : tick'.sent[i] \in { << >>, tick'.chunk } ]_vars

\* a call of serialPipe has written the configuration key of a client to
\* Serial and has sent the configuration key of the device under test to
\* a client, and the sketch is still in Bridge Mode
C17_Witness ==
  /\ op = "serialPipe"
  /\ BridgeMode
  /\ ~tick.trig
  /\ Occurs(CONFIGURATION_KEY, tick.to_serial)
  /\ Occurs(CONFIGURATION_KEY, tick.chunk)
  /\ \E i \in Slots : tick.sent[i] = tick.chunk

(***************************** C18: line editing ****************************)

\* the position of the first newline of s, 0 without one
FirstNewline(s) ==
  IF Occurs(NEWLINE, s)
  THEN Least({ k \in 1..Len(s) : s[k] = NEWLINE })
  ELSE 0
\* the characters of s before its first newline
FirstLine(s) ==
  IF FirstNewline(s) = 0 THEN s ELSE SubSeq(s, 1, FirstNewline(s) - 1)
\* s without its last element
Front(s) == SubSeq(s, 1, Len(s) - 1)
\* the string the characters s leave, processed in order: a printable
\* character is appended, a backspace removes the last character, any
\* other character is ignored
RECURSIVE Edited(_)
Edited(s) ==
  IF s = << >> THEN << >>
  ELSE LET ch == s[Len(s)]
       IN IF ch \in 32..126 THEN Append(Edited(Front(s)), ch)
          ELSE IF ch = 8 /\ Edited(Front(s)) # << >>
               THEN Front(Edited(Front(s)))
          ELSE Edited(Front(s))
\* the characters echoed for s: the printable ones, and a backspace when
\* the string was not empty
RECURSIVE Echoed(_)
Echoed(s) ==
  IF s = << >> THEN << >>
  ELSE LET ch == s[Len(s)]
       IN IF ch \in 32..126 \/ (ch = 8 /\ Edited(Front(s)) # << >>)
          THEN Append(Echoed(Front(s)), ch)
          ELSE Echoed(Front(s))

\* C18: the string console_read collects, and the characters it echoes,
\* are those that the characters before the first newline leave when they
\* are processed in order (printable: appended and echoed; backspace:
\* removes the last character and is echoed when the string is not empty;
\* any other, the 255 of an empty read included: ignored), whatever the
\* uptime at which the blink is serviced; console_read returns at the
\* first newline and reads no character after it.
C18_LineEditing ==
  probe.fn = "console_read" =>
    /\ probe.input = Edited(FirstLine(probe.data))
    /\ probe.echo = Echoed(FirstLine(probe.data))
    /\ probe.next = IF FirstNewline(probe.data) = 0 THEN 0
                    ELSE FirstNewline(probe.data) + 1
    /\ probe.led[1] \in { HIGH, LOW }

\* console_read has collected lab1 from the characters l a x backspace b 1
\* typed between reads that found nothing, with the blink serviced after
\* the console had settled
C18_Witness ==
  /\ probe.fn = "console_read"
  /\ probe.now = CONSOLE_SETTLE_MS
  /\ Occurs(NO_DATA, probe.data)
  /\ Occurs(BACKSPACE, probe.data)
  /\ probe.input = << 108, 97, 98, 49 >>
  /\ probe.echo = << 108, 97, 120, BACKSPACE, 98, 49 >>

(*************************** C19: bridge startup ****************************)

\* C19 as stated: in Bridge Mode, which setupSerialPipe set up, the radio
\* transmits at the tx_power of the loaded configuration, which is the
\* power the startup log reports; Serial is open at the configured DUT
\* rate and the logger at the configured log rate; and the server, once
\* started, listens on the configured port.
C19_Original ==
  (radio.begun /\ BridgeMode) =>
    /\ radio.tx_power = TxPower(serialpipe_config)
    /\ radio.tx_power = radio.logged_tx_power
    /\ radio.serial_baud = DutBaud(serialpipe_config)
    /\ radio.logger_baud = LogBaud(serialpipe_config)
    /\ radio.ssid = Ssid(serialpipe_config)
    /\ radio.psk = Psk(serialpipe_config)
    /\ radio.listen_port \in { -1, ListenPort(serialpipe_config) }

\* what setupSerialPipe does apply: every setting but the power, which is
\* the default whatever the configuration says
C19_Applied ==
  (radio.begun /\ BridgeMode) =>
    /\ radio.tx_power = FloatBytes(12, 1)
    /\ radio.logged_tx_power = TxPower(serialpipe_config)
    /\ radio.serial_baud = DutBaud(serialpipe_config)
    /\ radio.logger_baud = LogBaud(serialpipe_config)
    /\ radio.ssid = Ssid(serialpipe_config)
    /\ radio.psk = Psk(serialpipe_config)
    /\ radio.listen_port \in { -1, ListenPort(serialpipe_config) }

\* the bridge has started with the configuration lab1 / 15.0 / 2323 / 9600
\* that the operator committed, and listens
C19_Started ==
  /\ radio.begun
  /\ BridgeMode
  /\ radio.listen_port = 2323
  /\ radio.serial_baud = 9600
  /\ radio.logged_tx_power = FloatBytes(15, 1)

(************************* C20: the tick terminates *************************)

\* the sketch is about to call serialPipe
AtTick == pc = "loop" /\ BridgeMode
\* the blink of the status LED is due
BlinkDue == AtTick /\ status_led_change_ms <= millis
\* the configuration key waits on the debug console
KeyWaits == AtTick /\ ReadByte(logger_rx, -1) = CONFIGURATION_KEY
\* the turns the loops of lines 244-250, 266-270, 275-288 and 297-306 make
\* in the call of serialPipe that this step makes
TickTurns == 3 * MAX_SRV_CLIENTS + Len(tick'.to_serial)

C20_Busy ==
  /\ op = "serialPipe"
  /\ AtTick
  /\ tick.to_serial # << >>
  /\ tick.chunk # << >>

====
